---- MODULE Spec2Model ----
(***************************************************************************)
(* shopsite (src/app.py): a Flask catalogue manager.  The persisted state  *)
(* is seven SQLAlchemy tables and a flat upload directory; every request   *)
(* handler is one action.  Form texts are sequences of one-character       *)
(* strings, so that strip(), float(), int(), json.loads() and              *)
(* secure_filename() are computed, not assumed.                            *)
(*                                                                         *)
(* SessionLocal is a scoped_session that no handler ever removes: each     *)
(* worker thread keeps one Session for as long as the thread lives.  A     *)
(* handler that changes a loaded object and returns without commit() or    *)
(* rollback() leaves the change in that Session, and the next commit() of  *)
(* the same thread writes it.  The database is the default one             *)
(* (sqlite:///shop.db): new ids are max(id)+1, foreign keys are not        *)
(* enforced by the engine, reads see the last committed rows.              *)
(***************************************************************************)
EXTENDS Integers, Sequences, FiniteSets, TLC

VARIABLES categories, styles, products, variants, fabrics, fabric_refs,
          site_settings, uploads, sess, seen, is_admin, up, last

vars == <<categories, styles, products, variants, fabrics, fabric_refs,
          site_settings, uploads, sess, seen, is_admin, up, last>>

\* Everything that is persisted: the seven tables and the upload directory.
persisted == <<categories, styles, products, variants, fabrics, fabric_refs,
               site_settings, uploads>>

-----------------------------------------------------------------------------
(* Bounds of the model. *)

\* Rows per table that the creating handlers are allowed to reach.
MaxRows == 2

\* Files the upload directory is allowed to reach.
MaxFiles == 3

-----------------------------------------------------------------------------
(* Texts *)

IsSpace(c) == c \in {" "}

IsDigit(c) == c \in {"0", "1", "2", "3", "4", "5", "6", "7", "8", "9"}

DigitVal(c) ==
    CASE c = "0" -> 0 [] c = "1" -> 1 [] c = "2" -> 2 [] c = "3" -> 3
      [] c = "4" -> 4 [] c = "5" -> 5 [] c = "6" -> 6 [] c = "7" -> 7
      [] c = "8" -> 8 [] c = "9" -> 9

DigitChar(d) ==
    CASE d = 0 -> "0" [] d = 1 -> "1" [] d = 2 -> "2" [] d = 3 -> "3"
      [] d = 4 -> "4" [] d = 5 -> "5" [] d = 6 -> "6" [] d = 7 -> "7"
      [] d = 8 -> "8" [] d = 9 -> "9"

RECURSIVE LStrip(_)
LStrip(s) ==
    IF s # <<>> /\ IsSpace(Head(s)) THEN LStrip(Tail(s)) ELSE s

RECURSIVE RStrip(_)
RStrip(s) ==
    IF s # <<>> /\ IsSpace(s[Len(s)]) THEN RStrip(SubSeq(s, 1, Len(s) - 1)) ELSE s

\* str.strip()
Strip(s) == RStrip(LStrip(s))

AllDigits(s) == \A i \in 1..Len(s) : IsDigit(s[i])

RECURSIVE Num(_)
Num(s) ==
    IF s = <<>> THEN 0 ELSE Num(SubSeq(s, 1, Len(s) - 1)) * 10 + DigitVal(s[Len(s)])

\* str(i) for i >= 0
RECURSIVE Str(_)
Str(i) ==
    IF i < 10 THEN <<DigitChar(i)>> ELSE Append(Str(i \div 10), DigitChar(i % 10))

Unsigned(s) == IF s # <<>> /\ Head(s) \in {"+", "-"} THEN Tail(s) ELSE s

Sign(s) == IF s # <<>> /\ Head(s) = "-" THEN -1 ELSE 1

\* int(text): the texts Python's int() accepts, without the "_" digit
\* separators: optional blanks, optional sign, one or more digits.
IntOk(text) ==
    LET u == Unsigned(Strip(text)) IN u # <<>> /\ AllDigits(u)

IntVal(text) == Sign(Strip(text)) * Num(Unsigned(Strip(text)))

Dots(u) == {i \in 1..Len(u) : u[i] = "."}

IntPart(u) ==
    IF Dots(u) = {} THEN u ELSE SubSeq(u, 1, (CHOOSE i \in Dots(u) : TRUE) - 1)

FracPart(u) ==
    IF Dots(u) = {} THEN <<>>
    ELSE SubSeq(u, (CHOOSE i \in Dots(u) : TRUE) + 1, Len(u))

\* float(text) succeeds: optional blanks, optional sign, digits with at most
\* one ".", at least one digit.  (Exponents, "inf", "nan" and "_" are outside
\* the texts the model draws.)
FloatOk(text) ==
    LET u == Unsigned(Strip(text)) IN
        /\ Cardinality(Dots(u)) <= 1
        /\ AllDigits(IntPart(u)) /\ AllDigits(FracPart(u))
        /\ Len(IntPart(u)) + Len(FracPart(u)) >= 1

Digit(s, i) == IF i <= Len(s) THEN DigitVal(s[i]) ELSE 0

\* int(round(x * 100)) of the decimal the text denotes; round() rounds a
\* half to the even neighbour.
RoundCents(text) ==
    LET u    == Unsigned(Strip(text))
        f    == FracPart(u)
        base == Num(IntPart(u)) * 100 + Digit(f, 1) * 10 + Digit(f, 2)
        rest == IF Len(f) > 2 THEN SubSeq(f, 3, Len(f)) ELSE <<>>
        more == \E i \in 2..Len(rest) : rest[i] # "0"
        upw  == /\ rest # <<>>
                /\ \/ DigitVal(rest[1]) > 5
                   \/ DigitVal(rest[1]) = 5 /\ (more \/ base % 2 = 1)
    IN  Sign(Strip(text)) * (base + IF upw THEN 1 ELSE 0)

\* def parse_price_to_cents(text)
parse_price_to_cents(text) ==
    LET t == IF text = <<>> THEN <<"0">> ELSE text
    IN  IF FloatOk(t) THEN RoundCents(t) ELSE 0

-----------------------------------------------------------------------------
(* json.loads(text) succeeds.  The recogniser covers objects, arrays,      *)
(* strings without escapes, integers and the three literals, with blanks   *)
(* between tokens; the model draws its attribute texts from this grammar.  *)

\* Index of the first non-blank character at or after i (Len(s)+1 if none).
SkipWs(s, i) ==
    CHOOSE j \in i..(Len(s) + 1) :
        /\ \A k \in i..(j - 1) : IsSpace(s[k])
        /\ j = Len(s) + 1 \/ ~IsSpace(s[j])

StartsWith(s, i, w) ==
    /\ i + Len(w) - 1 <= Len(s)
    /\ SubSeq(s, i, i + Len(w) - 1) = w

\* Each J... operator returns the index after the construct, or 0.
JString(s, i) ==
    LET close == {j \in (i + 1)..Len(s) : s[j] = "\""} IN
        IF close = {} THEN 0
        ELSE LET j == CHOOSE x \in close : \A y \in close : x <= y IN
             IF \E k \in (i + 1)..(j - 1) : s[k] = "\\" THEN 0 ELSE j + 1

JNumber(s, i) ==
    LET d == IF s[i] = "-" THEN i + 1 ELSE i
        e == CHOOSE j \in d..(Len(s) + 1) :
                 /\ \A k \in d..(j - 1) : IsDigit(s[k])
                 /\ j = Len(s) + 1 \/ ~IsDigit(s[j])
    IN  IF e = d \/ (s[d] = "0" /\ e > d + 1) THEN 0 ELSE e

RECURSIVE JValue(_, _), JElems(_, _), JMembers(_, _)

JValue(s, i) ==
    IF i > Len(s) THEN 0
    ELSE CASE s[i] = "{" ->
                LET j == SkipWs(s, i + 1) IN
                    IF j <= Len(s) /\ s[j] = "}" THEN j + 1 ELSE JMembers(s, j)
           [] s[i] = "[" ->
                LET j == SkipWs(s, i + 1) IN
                    IF j <= Len(s) /\ s[j] = "]" THEN j + 1 ELSE JElems(s, j)
           [] s[i] = "\"" -> JString(s, i)
           [] s[i] = "-" \/ IsDigit(s[i]) -> JNumber(s, i)
           [] StartsWith(s, i, <<"t", "r", "u", "e">>) -> i + 4
           [] StartsWith(s, i, <<"f", "a", "l", "s", "e">>) -> i + 5
           [] StartsWith(s, i, <<"n", "u", "l", "l">>) -> i + 4
           [] OTHER -> 0

JElems(s, i) ==
    LET v == JValue(s, i) IN
        IF v = 0 THEN 0
        ELSE LET j == SkipWs(s, v) IN
             IF j > Len(s) THEN 0
             ELSE IF s[j] = "]" THEN j + 1
             ELSE IF s[j] = "," THEN JElems(s, SkipWs(s, j + 1))
             ELSE 0

JMembers(s, i) ==
    IF i > Len(s) \/ s[i] # "\"" THEN 0
    ELSE LET k == JString(s, i) IN
         IF k = 0 THEN 0
         ELSE LET c == SkipWs(s, k) IN
              IF c > Len(s) \/ s[c] # ":" THEN 0
              ELSE LET v == JValue(s, SkipWs(s, c + 1)) IN
                   IF v = 0 THEN 0
                   ELSE LET j == SkipWs(s, v) IN
                        IF j > Len(s) THEN 0
                        ELSE IF s[j] = "}" THEN j + 1
                        ELSE IF s[j] = "," THEN JMembers(s, SkipWs(s, j + 1))
                        ELSE 0

\* json.loads(text) does not raise
json_loads_ok(text) ==
    LET v == JValue(text, SkipWs(text, 1)) IN
        v # 0 /\ SkipWs(text, v) = Len(text) + 1

-----------------------------------------------------------------------------
(* File names *)

Lowers == <<"a", "b", "c", "d", "e", "f", "g", "h", "i", "j", "k", "l", "m",
            "n", "o", "p", "q", "r", "s", "t", "u", "v", "w", "x", "y", "z">>

Uppers == <<"A", "B", "C", "D", "E", "F", "G", "H", "I", "J", "K", "L", "M",
            "N", "O", "P", "Q", "R", "S", "T", "U", "V", "W", "X", "Y", "Z">>

Range(f) == {f[i] : i \in DOMAIN f}

\* str.lower(), one character
LowerChar(c) ==
    IF c \in Range(Uppers) THEN Lowers[CHOOSE i \in 1..26 : Uppers[i] = c] ELSE c

Lower(s) == [i \in 1..Len(s) |-> LowerChar(s[i])]

ALLOWED_EXTENSIONS ==
    { <<"p", "n", "g">>, <<"j", "p", "g">>, <<"j", "p", "e", "g">>,
      <<"g", "i", "f">>, <<"w", "e", "b", "p">> }

LastDot(s) == CHOOSE i \in Dots(s) : \A j \in Dots(s) : j <= i

\* def allowed_file(filename)
allowed_file(filename) ==
    /\ Dots(filename) # {}
    /\ Lower(SubSeq(filename, LastDot(filename) + 1, Len(filename)))
           \in ALLOWED_EXTENSIONS

\* werkzeug's _filename_ascii_strip_re keeps [A-Za-z0-9_.-]
SafeChar(c) ==
    \/ c \in Range(Lowers) \/ c \in Range(Uppers) \/ IsDigit(c)
    \/ c \in {"_", ".", "-"}

\* "_".join(s.split())
RECURSIVE JoinSplit(_)
JoinSplit(s) ==
    LET t == LStrip(s) IN
        IF t = <<>> THEN <<>>
        ELSE LET k    == CHOOSE j \in 1..(Len(t) + 1) :
                             /\ \A x \in 1..(j - 1) : ~IsSpace(t[x])
                             /\ j = Len(t) + 1 \/ IsSpace(t[j])
                 rest == LStrip(SubSeq(t, k, Len(t)))
             IN  IF rest = <<>> THEN SubSeq(t, 1, k - 1)
                 ELSE SubSeq(t, 1, k - 1) \o <<"_">> \o JoinSplit(rest)

RECURSIVE StripDotUnderscore(_)
StripDotUnderscore(s) ==
    IF s # <<>> /\ Head(s) \in {".", "_"} THEN StripDotUnderscore(Tail(s))
    ELSE IF s # <<>> /\ s[Len(s)] \in {".", "_"}
         THEN StripDotUnderscore(SubSeq(s, 1, Len(s) - 1))
    ELSE s

\* A character with a code point above 127 (dropped by encode("ascii", "ignore")).
IsAscii(c) == c \notin {"wei", "dou", "fa", "shi"}

\* werkzeug.utils.secure_filename
secure_filename(filename) ==
    LET ascii == SelectSeq(filename, IsAscii)
        nosep == [i \in 1..Len(ascii) |-> IF ascii[i] = "/" THEN " " ELSE ascii[i]]
    IN  StripDotUnderscore(SelectSeq(JoinSplit(nosep), SafeChar))

\* os.path.splitext on a name without directory part
SplitBase(name) ==
    IF Dots(name) = {} \/ \A i \in 1..(LastDot(name) - 1) : name[i] = "."
    THEN name ELSE SubSeq(name, 1, LastDot(name) - 1)

SplitExt(name) ==
    IF Dots(name) = {} \/ \A i \in 1..(LastDot(name) - 1) : name[i] = "."
    THEN <<>> ELSE SubSeq(name, LastDot(name), Len(name))

\* f"{base}_{i}{ext}"
Suffixed(base, i, ext) == base \o <<"_">> \o Str(i) \o ext

\* An uploaded file: its original name and its bytes; NoFile is the empty
\* form field (request.files.get("image") with an empty filename).
NoFile == [filename |-> <<>>, data |-> 0]

\* The value a column holds when save_image returned None.
None == <<"None">>

FirstFreeNoLoop(dir, filename, base, ext, i) == filename

\* The while loop of save_image: the first of filename, base_1ext, base_2ext,
\* ... that names no existing file.
RECURSIVE FirstFree(_, _, _, _, _)
FirstFree(dir, filename, base, ext, i) ==
    IF filename \in DOMAIN dir
    THEN FirstFree(dir, Suffixed(base, i, ext), base, ext, i + 1)
    ELSE filename

\* def save_image(file_storage): the name it returns (None if rejected)
SavedName(dir, fs) ==
    IF fs.filename # <<>> /\ allowed_file(fs.filename)
    THEN LET filename == secure_filename(fs.filename) IN
             FirstFree(dir, filename, SplitBase(filename), SplitExt(filename), 1)
    ELSE None

\* def save_image(file_storage): the upload directory after it
SavedDir(dir, fs) ==
    IF SavedName(dir, fs) = None THEN dir
    ELSE [n \in DOMAIN dir \cup {SavedName(dir, fs)} |->
             IF n = SavedName(dir, fs) THEN fs.data ELSE dir[n]]

-----------------------------------------------------------------------------
(* Tables, sessions, responses *)

Workers == {"w1", "w2"}

Clients == {"b1", "b2"}

ADMIN_PASSWORD == "admin123"

FlagKeys == {"public_shopfront", "public_fabrics_choose",
             "public_fabrics_clearance", "show_home_fabrics_choose",
             "show_home_fabrics_clearance"}

\* A nullable integer column: {} is NULL, {n} is the value n.
NULL == {}

Max(S) == CHOOSE x \in S : \A y \in S : y <= x

\* The id an INSERT gets: the table's rowid, max(id) + 1.
NewId(t) == IF DOMAIN t = {} THEN 1 ELSE Max(DOMAIN t) + 1

Put(t, id, row) == [x \in DOMAIN t \cup {id} |-> IF x = id THEN row ELSE t[x]]

Drop(t, ids) == [x \in DOMAIN t \ ids |-> t[x]]

\* A row with a Session's unflushed attribute changes applied (UPDATE ... SET
\* the changed columns WHERE id = ...; a row that is gone matches nothing).
Over(row, ov) == [f \in DOMAIN row |-> IF f \in DOMAIN ov THEN ov[f] ELSE row[f]]

View(t, pend) ==
    [id \in DOMAIN t |-> IF id \in DOMAIN pend THEN Over(t[id], pend[id]) ELSE t[id]]

\* The attribute changes that turn the stored row into obj (the attribute
\* history a flush would write).
Diff(row, obj) == [f \in {g \in DOMAIN obj : obj[g] # row[g]} |-> obj[f]]

\* The Session's pending changes once the object with this id holds obj.
Mark(pend, t, id, obj) ==
    IF Diff(t[id], obj) = <<>> THEN Drop(pend, {id})
    ELSE Put(pend, id, Diff(t[id], obj))

\* A Session right after sessionmaker() made it, after commit() and after
\* rollback(): nothing pending, every object expired.
Clean == [cat |-> <<>>, prod |-> <<>>, var |-> <<>>, identity |-> <<>>]

\* What a query of worker w's Session sees: the committed rows with the
\* Session's own changes flushed over them.
Vc(w) == View(categories, sess[w].cat)

Vp(w) == View(products, sess[w].prod)

Vv(w) == View(variants, sess[w].var)

\* db.get(SiteSetting, key) for each of keys: the identity map first, the
\* table for what the map does not hold.
Loaded(idmap, keys) ==
    [k \in DOMAIN idmap \cup (keys \cap DOMAIN site_settings) |->
        IF k \in DOMAIN idmap THEN idmap[k] ELSE site_settings[k]]

\* The unmodified objects a Session still holds when the handler has returned:
\* the identity map references them weakly and the handler's locals are gone.
EndRequestKeeps(idmap) == idmap

EndRequest(idmap) == <<>>

\* (seen[w] records, for the properties only, the public_shopfront row as
\* worker w's Session read it last: what a Session that kept its objects
\* would still hold.)
Watched == {"public_shopfront"}

\* def get_flag(key, default)
get_flag(w, key, default) ==
    LET m == Loaded(sess[w].identity, {key}) IN
        IF key \notin DOMAIN m THEN default ELSE m[key] = "1"

AdminAlways(cl) == TRUE

\* def admin_required()
admin_required(cl) == is_admin[cl]

\* The request just served and its response; n alternates, so that a step
\* that serves a request always changes it.
Reply(op, w, cl, arg, resp) ==
    last' = [op |-> op, w |-> w, cl |-> cl, auth |-> is_admin[cl], arg |-> arg,
             resp |-> resp, n |-> 1 - last.n]

\* The handler returns without commit(): s is what its Session then holds;
\* keys are the flags it read (render_template runs inject_flags).
NoCommit(w, s, keys) ==
    /\ UNCHANGED <<categories, styles, products, variants, fabrics, fabric_refs,
                   site_settings>>
    /\ sess' = [sess EXCEPT ![w] =
                  [s EXCEPT !.identity = EndRequest(Loaded(s.identity, keys))]]
    /\ seen' = [seen EXCEPT ![w] = Loaded(Drop(@, keys), keys \cap Watched)]

Redirect(w) == NoCommit(w, sess[w], {})

Render(w) == NoCommit(w, sess[w], FlagKeys)

\* db.commit(): the Session's pending changes and the handler's own are
\* written together; the Session is clean afterwards.
Commit(w, c, s, p, v, f, r, ss) ==
    /\ categories' = c /\ styles' = s /\ products' = p /\ variants' = v
    /\ fabrics' = f /\ fabric_refs' = r /\ site_settings' = ss
    /\ sess' = [sess EXCEPT ![w] = Clean]
    /\ UNCHANGED seen

\* save_image(image) if image and image.filename else ""
ImageName(image) == IF image.filename # <<>> THEN SavedName(uploads, image) ELSE <<>>

ImageDir(image) == IF image.filename # <<>> THEN SavedDir(uploads, image) ELSE uploads

\* Room in the upload directory for what this request may store.
Room(image) == ImageDir(image) = uploads \/ Cardinality(DOMAIN uploads) < MaxFiles

Idle == [pc |-> "idle", fs |-> NoFile, filename |-> <<>>, i |-> 1, result |-> <<>>]

Uploaders == {"u1", "u2"}

NoRequest ==
    [op |-> "none", w |-> "w1", cl |-> "b1", auth |-> FALSE, arg |-> <<>>,
     resp |-> "none", n |-> 0]

\* Base.metadata.create_all(engine) on a new database: empty tables, an empty
\* upload directory, no browser logged in.
Init ==
    /\ categories = <<>> /\ styles = <<>> /\ products = <<>> /\ variants = <<>>
    /\ fabrics = <<>> /\ fabric_refs = <<>> /\ site_settings = <<>>
    /\ uploads = <<>>
    /\ sess = [w \in Workers |-> Clean]
    /\ seen = [w \in Workers |-> <<>>]
    /\ is_admin = [cl \in Clients |-> FALSE]
    /\ up = [u \in Uploaders |-> Idle]
    /\ last = NoRequest

\* The rows of a Fabric, Product, Style and Category with the columns the
\* constructor call names; the others take their defaults.
DemoCategory(name) == [name |-> name, description |-> <<"d">>, image_filename |-> <<>>]

DemoStyle(name) ==
    [category_id |-> 1, name |-> name, description |-> <<>>, image_filename |-> <<>>]

DemoFabric(name, price, clearance, cp) ==
    [name |-> name, origin |-> <<"o">>, size |-> <<"s">>, description |-> <<"d">>,
     price_cents |-> price, is_clearance |-> clearance,
     clearance_price_cents |-> cp, image_filename |-> <<>>,
     ref_image_filename |-> <<>>]

\* if __name__ == "__main__": the five flags set to True and the demo rows
\* added to the new database before app.run().  (Each Chinese character of a
\* name is written as one element.)
InitDemo ==
    /\ categories = <<DemoCategory(<<"wei", "dou", "dou">>), DemoCategory(<<"fa", "shi">>)>>
    /\ styles = <<DemoStyle(<<"yuan", "xing">>), DemoStyle(<<"hua", "xing">>),
                  DemoStyle(<<"3", "6", "0", "du", "xing">>)>>
    /\ products = <<[name |-> <<"P">>, price_cents |-> 39000, description |-> <<"d">>,
                     image_filename |-> <<>>, category_id |-> {1}, style_id |-> {1}]>>
    /\ variants = <<>>
    /\ fabrics = <<DemoFabric(<<"F", "1">>, 25000, FALSE, NULL),
                   DemoFabric(<<"F", "2">>, 32000, TRUE, {19900})>>
    /\ fabric_refs = <<>>
    /\ site_settings = [k \in FlagKeys |-> "1"]
    /\ uploads = <<>>
    /\ sess = [w \in Workers |-> Clean]
    /\ seen = [w \in Workers |-> <<>>]
    /\ is_admin = [cl \in Clients |-> FALSE]
    /\ up = [u \in Uploaders |-> Idle]
    /\ last = NoRequest


-----------------------------------------------------------------------------
(* Login, logout *)

admin_login_any_password(w, cl, method, password) ==
    /\ is_admin' = [is_admin EXCEPT ![cl] = @ \/ method = "POST"]
    /\ Redirect(w)
    /\ Reply("admin_login", w, cl, [method |-> method, password |-> password], "ok")
    /\ UNCHANGED <<uploads, up>>

\* @app.route("/admin/login", methods=["GET", "POST"])
admin_login(w, cl, method, password) ==
    /\ IF method = "POST" /\ password = ADMIN_PASSWORD
       THEN /\ is_admin' = [is_admin EXCEPT ![cl] = TRUE]
            /\ Redirect(w)
            /\ Reply("admin_login", w, cl, [method |-> method, password |-> password], "ok")
       ELSE /\ UNCHANGED is_admin
            /\ Render(w)
            /\ Reply("admin_login", w, cl, [method |-> method, password |-> password],
                     IF method = "POST" THEN "badpw" ELSE "page")
    /\ UNCHANGED <<uploads, up>>

\* @app.route("/admin/logout")
admin_logout(w, cl) ==
    /\ is_admin' = [is_admin EXCEPT ![cl] = FALSE]
    /\ Redirect(w)
    /\ Reply("admin_logout", w, cl, <<>>, "ok")
    /\ UNCHANGED <<uploads, up>>

\* if not admin_required(): return redirect(url_for("admin_login"))
ToLogin(op, w, cl, arg) ==
    /\ Redirect(w)
    /\ Reply(op, w, cl, arg, "login")
    /\ UNCHANGED <<uploads, is_admin, up>>

\* The thread that served requests ends; its Session goes with it and the
\* connection's open transaction is rolled back.
ThreadEnd(w) ==
    /\ sess[w] # Clean \/ seen[w] # <<>>
    /\ sess' = [sess EXCEPT ![w] = Clean]
    /\ seen' = [seen EXCEPT ![w] = <<>>]
    /\ UNCHANGED <<categories, styles, products, variants, fabrics, fabric_refs,
                   site_settings, uploads, is_admin, up, last>>

-----------------------------------------------------------------------------
(* Categories *)

\* @app.route("/admin/categories")
admin_categories(w, cl) ==
    IF ~admin_required(cl) THEN ToLogin("admin_categories", w, cl, <<>>)
    ELSE /\ Render(w)
         /\ Reply("admin_categories", w, cl, <<>>, "page")
         /\ UNCHANGED <<uploads, is_admin, up>>

\* unique=True on categories.name
NamesUnique(c) == \A x, y \in DOMAIN c : c[x].name = c[y].name => x = y

NameTakenNever(c, name) == FALSE

\* db.query(Category).filter(Category.name == name).first()
NameTaken(c, name) == \E id \in DOMAIN c : c[id].name = name

\* @app.route("/admin/categories/new", methods=["GET", "POST"])
admin_category_new(w, cl, method, name, description, image) ==
    LET arg == [method |-> method, name |-> name, description |-> description,
                image |-> image]
        nm  == Strip(name)
        row == [name |-> nm, description |-> Strip(description),
                image_filename |-> ImageName(image)]
        dup == NameTaken(Vc(w), nm)
        new == Put(Vc(w), NewId(categories), row)
    IN
    IF ~admin_required(cl) THEN ToLogin("admin_category_new", w, cl, arg)
    ELSE IF method = "GET"
    THEN /\ Render(w)
         /\ Reply("admin_category_new", w, cl, arg, "page")
         /\ UNCHANGED <<uploads, is_admin, up>>
    ELSE /\ Room(image)
         /\ dup \/ NewId(categories) <= MaxRows
         /\ uploads' = ImageDir(image)
         /\ IF dup
            THEN /\ Redirect(w)
                 /\ Reply("admin_category_new", w, cl, arg, "dup")
            ELSE IF NamesUnique(new)
            THEN /\ Commit(w, new, styles, Vp(w), Vv(w), fabrics, fabric_refs,
                           site_settings)
                 /\ Reply("admin_category_new", w, cl, arg, "ok")
            ELSE \* db.commit() raises IntegrityError: the transaction is
                 \* rolled back and the handler fails
                 /\ NoCommit(w, Clean, {})
                 /\ Reply("admin_category_new", w, cl, arg, "error")
         /\ UNCHANGED <<is_admin, up>>

\* @app.route("/admin/categories/<int:category_id>/edit", methods=["GET", "POST"])
admin_category_edit(w, cl, category_id, method, name, description, image) ==
    LET arg == [category_id |-> category_id, method |-> method, name |-> name,
                description |-> description, image |-> image]
        op  == "admin_category_edit"
    IN
    IF ~admin_required(cl) THEN ToLogin(op, w, cl, arg)
    ELSE IF category_id \notin DOMAIN categories
    THEN /\ Redirect(w)
         /\ Reply(op, w, cl, arg, "missing")
         /\ UNCHANGED <<uploads, is_admin, up>>
    ELSE IF method = "GET"
    THEN /\ Render(w)
         /\ Reply(op, w, cl, arg, "page")
         /\ UNCHANGED <<uploads, is_admin, up>>
    ELSE LET c        == Vc(w)[category_id]
             new_name == Strip(name)
             saved    == ImageName(image)
             c1       == [c EXCEPT !.description = Strip(description),
                                   !.image_filename =
                                       IF saved # <<>> /\ saved # None THEN saved ELSE @]
             taken    == /\ new_name # <<>>
                         /\ new_name # c.name
                         /\ NameTaken(Drop(Vc(w), {category_id}), new_name)
             c2       == [c1 EXCEPT !.name = IF new_name # <<>> THEN new_name ELSE @]
         IN
         /\ Room(image)
         /\ uploads' = ImageDir(image)
         /\ IF taken
            THEN \* return redirect(...): no commit, no rollback
                 /\ NoCommit(w, [sess[w] EXCEPT
                                   !.cat = Mark(@, categories, category_id, c1)], {})
                 /\ Reply(op, w, cl, arg, "dup")
            ELSE IF NamesUnique(Put(Vc(w), category_id, c2))
            THEN /\ Commit(w, Put(Vc(w), category_id, c2), styles, Vp(w), Vv(w),
                           fabrics, fabric_refs, site_settings)
                 /\ Reply(op, w, cl, arg, "ok")
            ELSE \* except IntegrityError: db.rollback()
                 /\ NoCommit(w, Clean, {})
                 /\ Reply(op, w, cl, arg, "dup")
         /\ UNCHANGED <<is_admin, up>>

\* db.delete(c) for a Category: cascade="all, delete-orphan" deletes its Styles;
\* Products of the category, and of each deleted style, get the reference
\* nulled (relationships without a delete cascade).
DeleteCategory(c, s, p, category_id) ==
    LET gone == {x \in DOMAIN s : s[x].category_id = category_id} IN
        [cats  |-> Drop(c, {category_id}),
         stys  |-> Drop(s, gone),
         prods |-> [x \in DOMAIN p |->
                     [p[x] EXCEPT
                        !.category_id = IF @ = {category_id} THEN NULL ELSE @,
                        !.style_id = IF @ \cap gone # {} THEN NULL ELSE @]]]

\* @app.route("/admin/categories/<int:category_id>/delete", methods=["POST"])
admin_category_delete(w, cl, category_id) ==
    LET arg == [category_id |-> category_id]
        d   == DeleteCategory(Vc(w), styles, Vp(w), category_id)
    IN
    IF ~admin_required(cl) THEN ToLogin("admin_category_delete", w, cl, arg)
    ELSE /\ IF category_id \in DOMAIN categories
            THEN /\ Commit(w, d.cats, d.stys, d.prods, Vv(w), fabrics, fabric_refs,
                           site_settings)
                 /\ Reply("admin_category_delete", w, cl, arg, "ok")
            ELSE /\ Redirect(w)
                 /\ Reply("admin_category_delete", w, cl, arg, "missing")
         /\ UNCHANGED <<uploads, is_admin, up>>

-----------------------------------------------------------------------------
(* Styles *)

\* @app.route("/admin/categories/<int:category_id>/styles", methods=["GET", "POST"])
admin_styles(w, cl, category_id, method, name, description, image) ==
    LET arg == [category_id |-> category_id, method |-> method, name |-> name,
                description |-> description, image |-> image]
        op  == "admin_styles"
        row == [category_id |-> category_id, name |-> Strip(name),
                description |-> Strip(description),
                image_filename |-> ImageName(image)]
    IN
    IF ~admin_required(cl) THEN ToLogin(op, w, cl, arg)
    ELSE IF category_id \notin DOMAIN categories
    THEN /\ Redirect(w)
         /\ Reply(op, w, cl, arg, "missing")
         /\ UNCHANGED <<uploads, is_admin, up>>
    ELSE IF method = "GET"
    THEN /\ Render(w)
         /\ Reply(op, w, cl, arg, "page")
         /\ UNCHANGED <<uploads, is_admin, up>>
    ELSE /\ Room(image)
         /\ NewId(styles) <= MaxRows
         /\ uploads' = ImageDir(image)
         /\ Commit(w, Vc(w), Put(styles, NewId(styles), row), Vp(w), Vv(w),
                   fabrics, fabric_refs, site_settings)
         /\ Reply(op, w, cl, arg, "ok")
         /\ UNCHANGED <<is_admin, up>>

\* @app.route("/admin/styles/<int:style_id>/edit", methods=["POST"])
admin_style_edit(w, cl, style_id, name, description, image) ==
    LET arg == [style_id |-> style_id, name |-> name, description |-> description,
                image |-> image]
        op  == "admin_style_edit"
    IN
    IF ~admin_required(cl) THEN ToLogin(op, w, cl, arg)
    ELSE IF style_id \notin DOMAIN styles
    THEN /\ Redirect(w)
         /\ Reply(op, w, cl, arg, "missing")
         /\ UNCHANGED <<uploads, is_admin, up>>
    ELSE LET saved == ImageName(image)
             s1    == [styles[style_id] EXCEPT
                         !.name = Strip(name),
                         !.description = Strip(description),
                         !.image_filename =
                             IF saved # <<>> /\ saved # None THEN saved ELSE @]
         IN
         /\ Room(image)
         /\ uploads' = ImageDir(image)
         /\ Commit(w, Vc(w), Put(styles, style_id, s1), Vp(w), Vv(w), fabrics,
                   fabric_refs, site_settings)
         /\ Reply(op, w, cl, arg, "ok")
         /\ UNCHANGED <<is_admin, up>>

\* db.delete(s) for a Style: its Products get style_id nulled.
DeleteStyle(s, p, style_id) ==
    [stys  |-> Drop(s, {style_id}),
     prods |-> [x \in DOMAIN p |->
                 [p[x] EXCEPT !.style_id = IF @ = {style_id} THEN NULL ELSE @]]]

\* @app.route("/admin/styles/<int:style_id>/delete", methods=["POST"])
admin_style_delete(w, cl, style_id) ==
    LET arg == [style_id |-> style_id]
        d   == DeleteStyle(styles, Vp(w), style_id)
    IN
    IF ~admin_required(cl) THEN ToLogin("admin_style_delete", w, cl, arg)
    ELSE /\ IF style_id \in DOMAIN styles
            THEN /\ Commit(w, Vc(w), d.stys, d.prods, Vv(w), fabrics, fabric_refs,
                           site_settings)
                 /\ Reply("admin_style_delete", w, cl, arg, "ok")
            ELSE /\ Redirect(w)
                 /\ Reply("admin_style_delete", w, cl, arg, "missing")
         /\ UNCHANGED <<uploads, is_admin, up>>

-----------------------------------------------------------------------------
(* Products *)

\* @app.route("/admin/products")
admin_products(w, cl) ==
    IF ~admin_required(cl) THEN ToLogin("admin_products", w, cl, <<>>)
    ELSE /\ Render(w)
         /\ Reply("admin_products", w, cl, <<>>, "page")
         /\ UNCHANGED <<uploads, is_admin, up>>

\* int(text) if text else None
RefOk(text) == text = <<>> \/ IntOk(text)

RefVal(text) == IF text = <<>> THEN NULL ELSE {IntVal(text)}

\* @app.route("/admin/products/new", methods=["GET", "POST"])
admin_product_new(w, cl, method, name, price, description, image, category_id, style_id) ==
    LET arg == [method |-> method, name |-> name, price |-> price,
                description |-> description, image |-> image,
                category_id |-> category_id, style_id |-> style_id]
        op  == "admin_product_new"
    IN
    IF ~admin_required(cl) THEN ToLogin(op, w, cl, arg)
    ELSE IF method = "GET"
    THEN /\ Render(w)
         /\ Reply(op, w, cl, arg, "page")
         /\ UNCHANGED <<uploads, is_admin, up>>
    ELSE /\ Room(image)
         /\ uploads' = ImageDir(image)
         /\ IF RefOk(category_id) /\ RefOk(style_id)
            THEN /\ NewId(products) <= MaxRows
                 /\ Commit(w, Vc(w), styles,
                           Put(Vp(w), NewId(products),
                               [name |-> Strip(name),
                                price_cents |-> parse_price_to_cents(Strip(price)),
                                description |-> Strip(description),
                                image_filename |-> ImageName(image),
                                category_id |-> RefVal(category_id),
                                style_id |-> RefVal(style_id)]),
                           Vv(w), fabrics, fabric_refs, site_settings)
                 /\ Reply(op, w, cl, arg, "ok")
            ELSE \* int() raises ValueError: nothing was added to the Session
                 /\ Redirect(w)
                 /\ Reply(op, w, cl, arg, "error")
         /\ UNCHANGED <<is_admin, up>>

\* parse_price_to_cents(price_str) or p.price_cents
PriceOr(text, old) ==
    IF parse_price_to_cents(text) # 0 THEN parse_price_to_cents(text) ELSE old

\* @app.route("/admin/products/<int:product_id>/edit", methods=["GET", "POST"])
admin_product_edit(w, cl, product_id, method, name, price, description, image, category_id, style_id) ==
    LET arg == [product_id |-> product_id, method |-> method, name |-> name,
                price |-> price, description |-> description, image |-> image,
                category_id |-> category_id, style_id |-> style_id]
        op  == "admin_product_edit"
    IN
    IF ~admin_required(cl) THEN ToLogin(op, w, cl, arg)
    ELSE IF product_id \notin DOMAIN products
    THEN /\ Redirect(w)
         /\ Reply(op, w, cl, arg, "missing")
         /\ UNCHANGED <<uploads, is_admin, up>>
    ELSE IF method = "GET"
    THEN /\ Render(w)
         /\ Reply(op, w, cl, arg, "page")
         /\ UNCHANGED <<uploads, is_admin, up>>
    ELSE LET p     == Vp(w)[product_id]
             saved == ImageName(image)
             p1    == [p EXCEPT
                         !.name = Strip(name),
                         !.price_cents = PriceOr(Strip(price), @),
                         !.description = Strip(description),
                         !.image_filename =
                             IF saved # <<>> /\ saved # None THEN saved ELSE @]
             p2    == [p1 EXCEPT !.category_id = RefVal(category_id)]
             p3    == [p2 EXCEPT !.style_id = RefVal(style_id)]
         IN
         /\ Room(image)
         /\ uploads' = ImageDir(image)
         /\ IF ~RefOk(category_id)
            THEN \* int(category_id) raises: the attributes set so far stay
                 /\ NoCommit(w, [sess[w] EXCEPT
                                   !.prod = Mark(@, products, product_id, p1)], {})
                 /\ Reply(op, w, cl, arg, "error")
            ELSE IF ~RefOk(style_id)
            THEN /\ NoCommit(w, [sess[w] EXCEPT
                                   !.prod = Mark(@, products, product_id, p2)], {})
                 /\ Reply(op, w, cl, arg, "error")
            ELSE /\ Commit(w, Vc(w), styles, Put(Vp(w), product_id, p3), Vv(w),
                           fabrics, fabric_refs, site_settings)
                 /\ Reply(op, w, cl, arg, "ok")
         /\ UNCHANGED <<is_admin, up>>

\* db.delete(p) for a Product: cascade="all, delete-orphan" deletes its Variants.
DeleteProduct(p, v, product_id) ==
    [prods |-> Drop(p, {product_id}),
     vars_ |-> Drop(v, {x \in DOMAIN v : v[x].product_id = product_id})]

\* @app.route("/admin/products/<int:product_id>/delete", methods=["POST"])
admin_product_delete(w, cl, product_id) ==
    LET arg == [product_id |-> product_id]
        d   == DeleteProduct(Vp(w), Vv(w), product_id)
    IN
    IF ~admin_required(cl) THEN ToLogin("admin_product_delete", w, cl, arg)
    ELSE /\ IF product_id \in DOMAIN products
            THEN /\ Commit(w, Vc(w), styles, d.prods, d.vars_, fabrics, fabric_refs,
                           site_settings)
                 /\ Reply("admin_product_delete", w, cl, arg, "ok")
            ELSE /\ Redirect(w)
                 /\ Reply("admin_product_delete", w, cl, arg, "missing")
         /\ UNCHANGED <<uploads, is_admin, up>>

-----------------------------------------------------------------------------
(* Variants *)

\* int(request.form.get("stock", "0") or 0)
StockOk(text) == text = <<>> \/ IntOk(text)

StockVal(text) == IF text = <<>> THEN 0 ELSE IntVal(text)

\* request.form.get("attributes_json", "{}") or "{}"
AttrText(text) == IF text = <<>> THEN <<"{", "}">> ELSE text

\* @app.route("/admin/products/<int:product_id>/variants", methods=["GET", "POST"])
admin_variants(w, cl, product_id, method, sku, stock, attributes_json) ==
    LET arg == [product_id |-> product_id, method |-> method, sku |-> sku,
                stock |-> stock, attributes_json |-> attributes_json]
        op  == "admin_variants"
    IN
    IF ~admin_required(cl) THEN ToLogin(op, w, cl, arg)
    ELSE IF product_id \notin DOMAIN products
    THEN /\ Redirect(w)
         /\ Reply(op, w, cl, arg, "missing")
         /\ UNCHANGED <<uploads, is_admin, up>>
    ELSE IF method = "GET"
    THEN /\ Render(w)
         /\ Reply(op, w, cl, arg, "page")
         /\ UNCHANGED <<uploads, is_admin, up>>
    ELSE /\ IF ~StockOk(stock)
            THEN /\ Redirect(w)
                 /\ Reply(op, w, cl, arg, "error")
            ELSE IF ~json_loads_ok(AttrText(attributes_json))
            THEN /\ Redirect(w)
                 /\ Reply(op, w, cl, arg, "badjson")
            ELSE /\ NewId(variants) <= MaxRows
                 /\ Commit(w, Vc(w), styles, Vp(w),
                           Put(Vv(w), NewId(variants),
                               [product_id |-> product_id, sku |-> Strip(sku),
                                stock |-> StockVal(stock),
                                attributes_json |-> AttrText(attributes_json)]),
                           fabrics, fabric_refs, site_settings)
                 /\ Reply(op, w, cl, arg, "ok")
         /\ UNCHANGED <<uploads, is_admin, up>>

\* @app.route("/admin/variants/<int:variant_id>/edit", methods=["POST"])
admin_variant_edit(w, cl, variant_id, sku, stock, attributes_json) ==
    LET arg == [variant_id |-> variant_id, sku |-> sku, stock |-> stock,
                attributes_json |-> attributes_json]
        op  == "admin_variant_edit"
    IN
    IF ~admin_required(cl) THEN ToLogin(op, w, cl, arg)
    ELSE IF variant_id \notin DOMAIN variants
    THEN /\ Redirect(w)
         /\ Reply(op, w, cl, arg, "missing")
         /\ UNCHANGED <<uploads, is_admin, up>>
    ELSE LET v  == Vv(w)[variant_id]
             v1 == [v EXCEPT !.sku = Strip(sku)]
             v2 == [v1 EXCEPT !.stock = StockVal(stock)]
             v3 == [v2 EXCEPT !.attributes_json = AttrText(attributes_json)]
         IN
         /\ IF ~StockOk(stock)
            THEN \* int() raises after v.sku was set
                 /\ NoCommit(w, [sess[w] EXCEPT
                                   !.var = Mark(@, variants, variant_id, v1)], {})
                 /\ Reply(op, w, cl, arg, "error")
            ELSE IF ~json_loads_ok(AttrText(attributes_json))
            THEN \* return redirect(...) after v.sku and v.stock were set
                 /\ NoCommit(w, [sess[w] EXCEPT
                                   !.var = Mark(@, variants, variant_id, v2)], {})
                 /\ Reply(op, w, cl, arg, "badjson")
            ELSE /\ Commit(w, Vc(w), styles, Vp(w), Put(Vv(w), variant_id, v3),
                           fabrics, fabric_refs, site_settings)
                 /\ Reply(op, w, cl, arg, "ok")
         /\ UNCHANGED <<uploads, is_admin, up>>

\* @app.route("/admin/variants/<int:variant_id>/delete", methods=["POST"])
admin_variant_delete(w, cl, variant_id) ==
    LET arg == [variant_id |-> variant_id] IN
    IF ~admin_required(cl) THEN ToLogin("admin_variant_delete", w, cl, arg)
    ELSE /\ IF variant_id \in DOMAIN variants
            THEN /\ Commit(w, Vc(w), styles, Vp(w), Drop(Vv(w), {variant_id}),
                           fabrics, fabric_refs, site_settings)
                 /\ Reply("admin_variant_delete", w, cl, arg, "ok")
            ELSE /\ Redirect(w)
                 /\ Reply("admin_variant_delete", w, cl, arg, "missing")
         /\ UNCHANGED <<uploads, is_admin, up>>

-----------------------------------------------------------------------------
(* Fabrics *)

\* @app.route("/admin/fabrics")
admin_fabrics(w, cl) ==
    IF ~admin_required(cl) THEN ToLogin("admin_fabrics", w, cl, <<>>)
    ELSE /\ Render(w)
         /\ Reply("admin_fabrics", w, cl, <<>>, "page")
         /\ UNCHANGED <<uploads, is_admin, up>>

\* for fs in request.files.getlist("ref_images"): the directory after the
\* loop and the names save_image returned for the files it accepted.
RECURSIVE SaveAll(_, _)
SaveAll(dir, files) ==
    IF files = <<>> THEN [dir |-> dir, names |-> <<>>]
    ELSE LET fs == Head(files)
             nm == IF fs.filename # <<>> THEN SavedName(dir, fs) ELSE None
             r  == SaveAll(IF nm # None THEN SavedDir(dir, fs) ELSE dir, Tail(files))
         IN  [dir |-> r.dir, names |-> IF nm # None THEN <<nm>> \o r.names ELSE r.names]

\* db.add(FabricRef(fabric_id=f.id, filename=saved)) for each saved name
RECURSIVE AddRefs(_, _, _)
AddRefs(refs, fabric_id, names) ==
    IF names = <<>> THEN refs
    ELSE AddRefs(Put(refs, NewId(refs), [fabric_id |-> fabric_id, filename |-> Head(names)]),
                 fabric_id, Tail(names))

\* parse_price_to_cents(cp_text) if cp_text else None
ClearancePrice(text) ==
    IF Strip(text) = <<>> THEN NULL ELSE {parse_price_to_cents(Strip(text))}

FabricArg(id, method, name, price, is_clearance, clearance_price, image, ref_images) ==
    [fabric_id |-> id, method |-> method, name |-> name, price |-> price,
     is_clearance |-> is_clearance, clearance_price |-> clearance_price,
     image |-> image, ref_images |-> ref_images]

\* @app.route("/admin/fabrics/new", methods=["GET", "POST"])
\* (origin, size and description are stored like name)
admin_fabric_new(w, cl, method, name, price, is_clearance, clearance_price, image, ref_images) ==
    LET arg == FabricArg(0, method, name, price, is_clearance, clearance_price,
                         image, ref_images)
        op  == "admin_fabric_new"
        id  == NewId(fabrics)
        all == SaveAll(ImageDir(image), ref_images)
        row == [name |-> Strip(name), origin |-> <<>>, size |-> <<>>,
                description |-> <<>>,
                price_cents |-> parse_price_to_cents(price),
                is_clearance |-> is_clearance # <<>>,
                clearance_price_cents |-> ClearancePrice(clearance_price),
                image_filename |-> ImageName(image),
                ref_image_filename |-> <<>>]
    IN
    IF ~admin_required(cl) THEN ToLogin(op, w, cl, arg)
    ELSE IF method = "GET"
    THEN /\ Render(w)
         /\ Reply(op, w, cl, arg, "page")
         /\ UNCHANGED <<uploads, is_admin, up>>
    ELSE /\ id <= MaxRows
         /\ DOMAIN AddRefs(fabric_refs, id, all.names) \subseteq 1..MaxRows
         /\ all.dir = uploads \/ Cardinality(DOMAIN all.dir) <= MaxFiles
         /\ uploads' = all.dir
         /\ Commit(w, Vc(w), styles, Vp(w), Vv(w), Put(fabrics, id, row),
                   AddRefs(fabric_refs, id, all.names), site_settings)
         /\ Reply(op, w, cl, arg, "ok")
         /\ UNCHANGED <<is_admin, up>>

\* @app.route("/admin/fabrics/<int:fabric_id>/edit", methods=["GET", "POST"])
admin_fabric_edit(w, cl, fabric_id, method, name, price, is_clearance, clearance_price, image, ref_images) ==
    LET arg == FabricArg(fabric_id, method, name, price, is_clearance,
                         clearance_price, image, ref_images)
        op  == "admin_fabric_edit"
    IN
    IF ~admin_required(cl) THEN ToLogin(op, w, cl, arg)
    ELSE IF fabric_id \notin DOMAIN fabrics
    THEN /\ Redirect(w)
         /\ Reply(op, w, cl, arg, "missing")
         /\ UNCHANGED <<uploads, is_admin, up>>
    ELSE IF method = "GET"
    THEN /\ Render(w)
         /\ Reply(op, w, cl, arg, "page")
         /\ UNCHANGED <<uploads, is_admin, up>>
    ELSE LET saved == ImageName(image)
             all   == SaveAll(ImageDir(image), ref_images)
             f1    == [fabrics[fabric_id] EXCEPT
                         !.name = Strip(name),
                         !.price_cents = PriceOr(price, @),
                         !.is_clearance = is_clearance # <<>>,
                         !.clearance_price_cents = ClearancePrice(clearance_price),
                         !.image_filename =
                             IF saved # <<>> /\ saved # None THEN saved ELSE @]
         IN
         /\ DOMAIN AddRefs(fabric_refs, fabric_id, all.names) \subseteq 1..MaxRows
         /\ all.dir = uploads \/ Cardinality(DOMAIN all.dir) <= MaxFiles
         /\ uploads' = all.dir
         /\ Commit(w, Vc(w), styles, Vp(w), Vv(w), Put(fabrics, fabric_id, f1),
                   AddRefs(fabric_refs, fabric_id, all.names), site_settings)
         /\ Reply(op, w, cl, arg, "ok")
         /\ UNCHANGED <<is_admin, up>>

\* db.delete(f) for a Fabric: cascade="all, delete-orphan" deletes its FabricRefs.
DeleteFabric(f, r, fabric_id) ==
    [fabs |-> Drop(f, {fabric_id}),
     refs |-> Drop(r, {x \in DOMAIN r : r[x].fabric_id = fabric_id})]

\* @app.route("/admin/fabrics/<int:fabric_id>/delete", methods=["POST"])
admin_fabric_delete(w, cl, fabric_id) ==
    LET arg == [fabric_id |-> fabric_id]
        d   == DeleteFabric(fabrics, fabric_refs, fabric_id)
    IN
    IF ~admin_required(cl) THEN ToLogin("admin_fabric_delete", w, cl, arg)
    ELSE /\ IF fabric_id \in DOMAIN fabrics
            THEN /\ Commit(w, Vc(w), styles, Vp(w), Vv(w), d.fabs, d.refs,
                           site_settings)
                 /\ Reply("admin_fabric_delete", w, cl, arg, "ok")
            ELSE /\ Redirect(w)
                 /\ Reply("admin_fabric_delete", w, cl, arg, "missing")
         /\ UNCHANGED <<uploads, is_admin, up>>

\* try: os.remove(path) except Exception: pass -- removed is whether the
\* operating system removed the file.
Removed(dir, filename, removed) ==
    IF removed THEN Drop(dir, {filename}) ELSE dir

admin_fabric_ref_delete_any_fabric(w, cl, fabric_id, ref_id, removed) ==
    LET arg == [fabric_id |-> fabric_id, ref_id |-> ref_id, removed |-> removed]
        op  == "admin_fabric_ref_delete"
    IN
    IF ~admin_required(cl) THEN ToLogin(op, w, cl, arg)
    ELSE IF ref_id \in DOMAIN fabric_refs
    THEN /\ uploads' = Removed(uploads, fabric_refs[ref_id].filename, removed)
         /\ Commit(w, Vc(w), styles, Vp(w), Vv(w), fabrics,
                   Drop(fabric_refs, {ref_id}), site_settings)
         /\ Reply(op, w, cl, arg, "ok")
         /\ UNCHANGED <<is_admin, up>>
    ELSE /\ Redirect(w)
         /\ Reply(op, w, cl, arg, "missing")
         /\ UNCHANGED <<uploads, is_admin, up>>

\* @app.route("/admin/fabrics/<int:fabric_id>/refs/<int:ref_id>/delete", methods=["POST"])
admin_fabric_ref_delete(w, cl, fabric_id, ref_id, removed) ==
    LET arg == [fabric_id |-> fabric_id, ref_id |-> ref_id, removed |-> removed]
        op  == "admin_fabric_ref_delete"
    IN
    IF ~admin_required(cl) THEN ToLogin(op, w, cl, arg)
    ELSE IF ref_id \in DOMAIN fabric_refs /\ fabric_refs[ref_id].fabric_id = fabric_id
    THEN /\ uploads' = Removed(uploads, fabric_refs[ref_id].filename, removed)
         /\ Commit(w, Vc(w), styles, Vp(w), Vv(w), fabrics,
                   Drop(fabric_refs, {ref_id}), site_settings)
         /\ Reply(op, w, cl, arg, "ok")
         /\ UNCHANGED <<is_admin, up>>
    ELSE /\ Redirect(w)
         /\ Reply(op, w, cl, arg, "missing")
         /\ UNCHANGED <<uploads, is_admin, up>>

-----------------------------------------------------------------------------
(* Site settings *)

\* def set_flag(key, value): upserts the row and commits
set_flag(ss, key, value) == Put(ss, key, IF value THEN "1" ELSE "0")

\* The five set_flag calls of admin_settings; checked is the set of keys the
\* form carries a value for.
RECURSIVE SetFlags(_, _, _)
SetFlags(ss, keys, checked) ==
    IF keys = {} THEN ss
    ELSE LET k == CHOOSE x \in keys : TRUE IN
         SetFlags(set_flag(ss, k, k \in checked), keys \ {k}, checked)

\* @app.route("/admin")
admin_dashboard(w, cl) ==
    IF ~admin_required(cl) THEN ToLogin("admin_dashboard", w, cl, <<>>)
    ELSE /\ Render(w)
         /\ Reply("admin_dashboard", w, cl, <<>>, "page")
         /\ UNCHANGED <<uploads, is_admin, up>>

\* @app.route("/admin/settings", methods=["GET", "POST"])
admin_settings(w, cl, method, checked) ==
    LET arg == [method |-> method, checked |-> checked] IN
    IF ~admin_required(cl) THEN ToLogin("admin_settings", w, cl, arg)
    ELSE /\ IF method = "POST"
            THEN /\ Commit(w, Vc(w), styles, Vp(w), Vv(w), fabrics, fabric_refs,
                           SetFlags(site_settings, FlagKeys, checked))
                 /\ Reply("admin_settings", w, cl, arg, "ok")
            ELSE /\ Render(w)
                 /\ Reply("admin_settings", w, cl, arg, "page")
         /\ UNCHANGED <<uploads, is_admin, up>>

-----------------------------------------------------------------------------
(* Public pages *)

RefusedAdminToo(w, cl, key) == ~get_flag(w, key, TRUE)

\* not get_flag(key, True) and not session.get("is_admin")
Refused(w, cl, key) == ~get_flag(w, key, TRUE) /\ ~is_admin[cl]

\* A public handler's Session afterwards: it read flag key, and every
\* template it rendered read all five.
Public(w, key, rendered) ==
    NoCommit(w, sess[w], IF rendered THEN FlagKeys ELSE {key})

\* @app.route("/")
index(w, cl) ==
    /\ Public(w, "public_shopfront", TRUE)
    /\ Reply("index", w, cl, <<>>,
             IF Refused(w, cl, "public_shopfront") THEN "closed" ELSE "content")
    /\ UNCHANGED <<uploads, is_admin, up>>

\* The three detail pages: abort(404) when refused, a redirect with a notice
\* when the row is missing, the page otherwise.
Detail(op, w, cl, id, table) ==
    LET resp == IF Refused(w, cl, "public_shopfront") THEN "notfound"
                ELSE IF id \notin DOMAIN table THEN "missing" ELSE "content"
    IN  /\ Public(w, "public_shopfront", resp = "content")
        /\ Reply(op, w, cl, [id |-> id], resp)
        /\ UNCHANGED <<uploads, is_admin, up>>

\* @app.route("/category/<int:category_id>")
category_detail(w, cl, category_id) ==
    Detail("category_detail", w, cl, category_id, categories)

\* @app.route("/style/<int:style_id>")
style_detail(w, cl, style_id) == Detail("style_detail", w, cl, style_id, styles)

\* @app.route("/product/<int:product_id>")
product_detail(w, cl, product_id) ==
    Detail("product_detail", w, cl, product_id, products)

Listing(op, w, cl, key) ==
    LET resp == IF Refused(w, cl, key) THEN "notfound" ELSE "content"
    IN  /\ Public(w, key, resp = "content")
        /\ Reply(op, w, cl, <<>>, resp)
        /\ UNCHANGED <<uploads, is_admin, up>>

\* @app.route("/fabrics/choose")
fabrics_choose(w, cl) == Listing("fabrics_choose", w, cl, "public_fabrics_choose")

\* @app.route("/fabrics/clearance")
fabrics_clearance(w, cl) ==
    Listing("fabrics_clearance", w, cl, "public_fabrics_clearance")

\* @app.route("/uploads/<path:filename>")
uploaded_file(w, cl, filename) ==
    /\ Redirect(w)
    /\ Reply("uploaded_file", w, cl,
             [filename |-> filename,
              data |-> IF filename \in DOMAIN uploads THEN uploads[filename] ELSE 0],
             IF filename \in DOMAIN uploads THEN "file" ELSE "notfound")
    /\ UNCHANGED <<uploads, is_admin, up>>

-----------------------------------------------------------------------------
(* save_image, as one call and step by step *)

Accepted(fs) == fs.filename # <<>> /\ allowed_file(fs.filename)

Done(fs, name) == [pc |-> "done", fs |-> fs, filename |-> name, i |-> 1, result |-> name]

\* One complete call of save_image(fs) by request u.
save_image(u, fs) ==
    /\ up[u].pc = "idle"
    /\ Cardinality(DOMAIN uploads) < MaxFiles
    /\ uploads' = SavedDir(uploads, fs)
    /\ up' = [up EXCEPT ![u] = Done(fs, SavedName(uploads, fs))]
    /\ UNCHANGED <<categories, styles, products, variants, fabrics, fabric_refs,
                   site_settings, sess, seen, is_admin, last>>

\* if file_storage and file_storage.filename and allowed_file(...):
\*     filename = secure_filename(...); i = 1
save_image_begin(u, fs) ==
    /\ up[u].pc = "idle"
    /\ Cardinality(DOMAIN uploads) + Cardinality({x \in Uploaders : up[x].pc \in {"exists", "save"}}) < MaxFiles
    /\ up' = [up EXCEPT ![u] =
                IF Accepted(fs)
                THEN [pc |-> "exists", fs |-> fs, filename |-> secure_filename(fs.filename),
                      i |-> 1, result |-> <<>>]
                ELSE Done(fs, None)]
    /\ UNCHANGED <<categories, styles, products, variants, fabrics, fabric_refs,
                   site_settings, uploads, sess, seen, is_admin, last>>

\* while os.path.exists(path): filename = f"{base}_{i}{ext}"; i += 1
save_image_exists(u) ==
    /\ up[u].pc = "exists"
    /\ up' = [up EXCEPT ![u] =
                IF up[u].filename \in DOMAIN uploads
                THEN [@ EXCEPT !.filename =
                                   Suffixed(SplitBase(secure_filename(up[u].fs.filename)),
                                            up[u].i,
                                            SplitExt(secure_filename(up[u].fs.filename))),
                               !.i = @ + 1]
                ELSE [@ EXCEPT !.pc = "save"]]
    /\ UNCHANGED <<categories, styles, products, variants, fabrics, fabric_refs,
                   site_settings, uploads, sess, seen, is_admin, last>>

save_image_save_if_free(u) ==
    /\ up[u].pc = "save"
    /\ IF up[u].filename \in DOMAIN uploads
       THEN /\ up' = [up EXCEPT ![u].pc = "exists"]
            /\ UNCHANGED uploads
       ELSE /\ uploads' = Put(uploads, up[u].filename, up[u].fs.data)
            /\ up' = [up EXCEPT ![u] = Done(up[u].fs, up[u].filename)]
    /\ UNCHANGED <<categories, styles, products, variants, fabrics, fabric_refs,
                   site_settings, sess, seen, is_admin, last>>

\* file_storage.save(path); return filename
save_image_save(u) ==
    /\ up[u].pc = "save"
    /\ uploads' = Put(uploads, up[u].filename, up[u].fs.data)
    /\ up' = [up EXCEPT ![u] = Done(up[u].fs, up[u].filename)]
    /\ UNCHANGED <<categories, styles, products, variants, fabrics, fabric_refs,
                   site_settings, sess, seen, is_admin, last>>

\* The request that called save_image is over.
save_image_return(u) ==
    /\ up[u].pc = "done"
    /\ up' = [up EXCEPT ![u] = Idle]
    /\ UNCHANGED <<categories, styles, products, variants, fabrics, fabric_refs,
                   site_settings, uploads, sess, seen, is_admin, last>>

-----------------------------------------------------------------------------
(* Specifications.  Each one serves the requests of one part of the site,   *)
(* with the form inputs drawn from the sets below.                           *)

POST == "POST"

Methods == {"GET", "POST"}

Passwords == {ADMIN_PASSWORD, "guess"}

Png(base, data) == [filename |-> base \o <<".", "p", "n", "g">>, data |-> data]

Ids == 1..MaxRows

\* Flags: the settings form, the public pages, login and logout.
Forms ==
    {FlagKeys, FlagKeys \ {"public_shopfront"},
     FlagKeys \ {"public_fabrics_choose"}, FlagKeys \ {"public_fabrics_clearance"}}

NextFlags ==
    \E w \in Workers, cl \in {"b1"} :
        \/ \E pw \in Passwords : admin_login(w, cl, POST, pw)
        \/ admin_logout(w, cl)
        \/ \E f \in Forms : admin_settings(w, cl, POST, f)
        \/ index(w, cl)
        \/ category_detail(w, cl, 1)
        \/ style_detail(w, cl, 1)
        \/ product_detail(w, cl, 1)
        \/ fabrics_choose(w, cl)
        \/ fabrics_clearance(w, cl)
        \/ ThreadEnd(w)

SpecFlags == (Init \/ InitDemo) /\ [][NextFlags]_vars

\* A step that serves a request.
Served == last'.n # last.n

\* A step that serves this POST of a logged-in browser.
Posted(op) ==
    Served /\ last'.op = op /\ last'.auth /\ last'.arg.method = POST

\* Categories: the list, create, rename and delete.
Names == {<<"A">>, <<"a">>, <<" ", "A">>}

Descriptions == {<<>>, <<"d">>}

NextCategory ==
    \E w \in {"w1"}, cl \in {"b1"} :
        \/ admin_login(w, cl, POST, ADMIN_PASSWORD)
        \/ \E n \in Names : admin_category_new(w, cl, POST, n, <<>>, NoFile)
        \/ \E id \in Ids, n \in {<<"A">>, <<"a">>, <<>>}, d \in Descriptions :
              admin_category_edit(w, cl, id, POST, n, d, NoFile)
        \/ \E id \in Ids : admin_category_delete(w, cl, id)
        \/ ThreadEnd(w)

SpecCategory == Init /\ [][NextCategory]_vars

\* C1: category names stay unique.  A create whose name (stripped) is the
\* name of an existing category, and a rename to the name of another existing
\* category, change no category and answer with the duplicate-name notice;
\* after every step no two categories share a name.
C1_UniqueNames ==
    [][/\ NamesUnique(categories')
       /\ (/\ Posted("admin_category_new")
           /\ \E id \in DOMAIN categories :
                 categories[id].name = Strip(last'.arg.name))
          => last'.resp = "dup" /\ categories' = categories
       /\ (/\ Posted("admin_category_edit")
           /\ last'.arg.category_id \in DOMAIN categories
           /\ \E id \in DOMAIN categories \ {last'.arg.category_id} :
                 categories[id].name = Strip(last'.arg.name))
          => last'.resp = "dup" /\ categories' = categories
      ]_vars

\* The second create of a name was answered with the notice and exactly one
\* category has the name.
C1_Witness ==
    /\ last.op = "admin_category_new" /\ last.resp = "dup"
    /\ Cardinality({id \in DOMAIN categories :
                       categories[id].name = Strip(last.arg.name)}) = 1
    /\ Cardinality(DOMAIN categories) = 2


\* The flag that gates a public page, and the response that refuses it.
GateOf(op) ==
    CASE op = "fabrics_choose" -> "public_fabrics_choose"
      [] op = "fabrics_clearance" -> "public_fabrics_clearance"
      [] OTHER -> "public_shopfront"

RefusalOf(op) == IF op = "index" THEN "closed" ELSE "notfound"

GatedOps ==
    {"index", "category_detail", "style_detail", "product_detail",
     "fabrics_choose", "fabrics_clearance"}

\* The value of a flag as the table holds it; a missing row is the default.
Stored(key, default) ==
    IF key \in DOMAIN site_settings THEN site_settings[key] = "1" ELSE default

\* C3: a gated public page is refused (closed for '/', not-found for the
\* others) exactly when its own flag is stored false and the caller is not an
\* authenticated admin; otherwise it takes the normal path (the content, or
\* the missing-row redirect of a detail page), whatever the other flags are.
C3_GatedPages ==
    last.op \in GatedOps =>
        LET refuse == ~Stored(GateOf(last.op), TRUE) /\ ~last.auth IN
            /\ refuse => last.resp = RefusalOf(last.op)
            /\ ~refuse => last.resp \in {"content", "missing"}

\* /fabrics/choose refused to a visitor while the other two gates are open.
C3_Witness ==
    /\ last.op = "fabrics_choose" /\ last.resp = "notfound" /\ ~last.auth
    /\ Stored("public_shopfront", FALSE)
    /\ Stored("public_fabrics_clearance", FALSE)

\* C4: flags are read fresh.  The settings form stores exactly the submitted
\* values, nothing else changes the table, and after every step get_flag in
\* every worker's Session returns the stored value of the key, or the
\* caller's default when the key has no row.
C4_FreshFlags ==
    [][/\ site_settings' # site_settings =>
            /\ Served /\ last'.op = "admin_settings" /\ last'.auth
            /\ last'.arg.method = "POST"
       /\ (Served /\ last'.op = "admin_settings" /\ last'.resp = "ok") =>
            site_settings' = [k \in FlagKeys |->
                                IF k \in last'.arg.checked THEN "1" ELSE "0"]
       /\ \A w \in Workers, k \in FlagKeys, d \in BOOLEAN :
            get_flag(w, k, d)' =
                IF k \in DOMAIN site_settings' THEN site_settings'[k] = "1" ELSE d
      ]_vars

\* A worker whose Session read public_shopfront as off before it was switched
\* on again has now refused /fabrics/choose by the value set since.
C4_Witness ==
    /\ last.op = "fabrics_choose" /\ last.resp = "notfound"
    /\ "public_shopfront" \in DOMAIN seen[last.w]
    /\ seen[last.w]["public_shopfront"] = "0"
    /\ Stored("public_shopfront", FALSE)

\* The admin pages: every route under /admin, before login and after.
T(c) == <<c>>

NextGate ==
    \E w \in {"w1"}, cl \in {"b1"} :
        \/ admin_login(w, cl, POST, ADMIN_PASSWORD)
        \/ admin_logout(w, cl)
        \/ admin_dashboard(w, cl)
        \/ admin_settings(w, cl, POST, FlagKeys \ {"public_shopfront"})
        \/ admin_categories(w, cl)
        \/ admin_category_new(w, cl, POST, T("A"), <<>>, NoFile)
        \/ admin_category_edit(w, cl, 1, POST, <<>>, T("d"), NoFile)
        \/ admin_category_delete(w, cl, 1)
        \/ admin_styles(w, cl, 1, POST, T("S"), <<>>, NoFile)
        \/ admin_style_edit(w, cl, 1, <<"yuan", "xing">>, <<>>, NoFile)
        \/ admin_style_delete(w, cl, 1)
        \/ admin_products(w, cl)
        \/ admin_product_new(w, cl, POST, T("P"), <<"3", "9", "0">>, T("d"), NoFile,
                             <<>>, <<>>)
        \/ admin_product_edit(w, cl, 1, POST, T("P"), <<>>, T("d"), NoFile, <<>>, <<>>)
        \/ admin_product_delete(w, cl, 1)
        \/ admin_variants(w, cl, 1, POST, T("k"), T("1"), <<>>)
        \/ admin_variant_edit(w, cl, 1, T("k"), T("1"), <<>>)
        \/ admin_variant_delete(w, cl, 1)
        \/ admin_fabrics(w, cl)
        \/ admin_fabric_new(w, cl, POST, T("F"), T("1"), <<>>, <<>>, NoFile, <<>>)
        \/ admin_fabric_edit(w, cl, 1, POST, T("G"), <<>>, <<>>, <<>>, NoFile, <<>>)
        \/ admin_fabric_delete(w, cl, 1)
        \/ admin_fabric_ref_delete(w, cl, 1, 1, TRUE)

SpecGate == InitDemo /\ [][NextGate]_vars

AdminOps ==
    {"admin_dashboard", "admin_settings", "admin_categories", "admin_category_new",
     "admin_category_edit", "admin_category_delete", "admin_styles",
     "admin_style_edit", "admin_style_delete", "admin_products",
     "admin_product_new", "admin_product_edit", "admin_product_delete",
     "admin_variants", "admin_variant_edit", "admin_variant_delete",
     "admin_fabrics", "admin_fabric_new", "admin_fabric_edit",
     "admin_fabric_delete", "admin_fabric_ref_delete"}

\* C2: a request to an admin route (other than login and logout) from a
\* browser that is not logged in is answered with the redirect to the login
\* page and changes no table and no uploaded file; the tables and the upload
\* directory change only in a step that serves a logged-in browser.
C2_AdminGate ==
    [][/\ (Served /\ last'.op \in AdminOps /\ ~last'.auth)
            => last'.resp = "login" /\ persisted' = persisted
       /\ persisted' # persisted => Served /\ last'.auth
      ]_vars

\* After the admin changed a setting and logged out, the browser asked to
\* delete an existing fabric and was sent to the login page; the fabric is
\* still there.
C2_Witness ==
    /\ last.op = "admin_fabric_delete" /\ ~last.auth /\ last.resp = "login"
    /\ last.arg.fabric_id \in DOMAIN fabrics
    /\ site_settings["public_shopfront"] = "0"

\* Deleting a category: the demo data, renames (some rejected) and deletes
\* served by one thread.
NextCascade ==
    \E w \in {"w1"}, cl \in {"b1"} :
        \/ admin_login(w, cl, POST, ADMIN_PASSWORD)
        \/ \E id \in Ids, n \in {<<"fa", "shi">>, <<>>}, d \in {T("d"), T("x")} :
              admin_category_edit(w, cl, id, POST, n, d, NoFile)
        \/ \E id \in Ids : admin_category_delete(w, cl, id)
        \/ \E c \in {<<>>, T("2")} :
              admin_product_edit(w, cl, 1, POST, T("P"), <<>>, T("d"), NoFile, c, <<>>)
        \/ ThreadEnd(w)

SpecCascade == InitDemo /\ [][NextCascade]_vars

\* C5: a served delete of an existing category removes exactly that category
\* and the styles of that category, deletes no product, nulls the category
\* reference of the products that had it and the style reference of the
\* products of the removed styles, and changes no other category, no other
\* style and no variant.
C5_CategoryDelete ==
    [][(Served /\ last'.op = "admin_category_delete" /\ last'.auth
          /\ last'.arg.category_id \in DOMAIN categories)
        => LET id   == last'.arg.category_id
               gone == {x \in DOMAIN styles : styles[x].category_id = id}
           IN  /\ categories' = Drop(categories, {id})
               /\ styles' = Drop(styles, gone)
               /\ DOMAIN products' = DOMAIN products
               /\ \A x \in DOMAIN products :
                    /\ products[x].category_id = {id} => products'[x].category_id = NULL
                    /\ products[x].style_id \cap gone # {} => products'[x].style_id = NULL
               /\ variants' = variants
      ]_vars

\* Variants of the demo product: create, edit and delete, served by one
\* thread, with attribute texts that are and are not JSON.
Attrs == {<<>>, <<"{", "}">>, <<"{">>, <<"[", "1", "]">>}

NextVariant ==
    \E w \in {"w1"}, cl \in {"b1"} :
        \/ admin_login(w, cl, POST, ADMIN_PASSWORD)
        \/ \E a \in Attrs : admin_variants(w, cl, 1, POST, T("k"), T("1"), a)
        \/ \E id \in Ids, k \in {T("k"), T("m")}, n \in {T("1"), T("5")}, a \in Attrs :
              admin_variant_edit(w, cl, id, k, n, a)
        \/ \E id \in Ids : admin_variant_delete(w, cl, id)
        \/ ThreadEnd(w)

SpecVariant == InitDemo /\ [][NextVariant]_vars

\* The attributes text of the request being served is not JSON.
BadJson == ~json_loads_ok(AttrText(last'.arg.attributes_json))

\* C6: a variant create or edit whose attributes text is not JSON is rejected
\* and nothing of it is ever stored: the step that serves it changes no
\* variant, and a stored variant changes only in the step that serves an edit
\* of that variant with a JSON attributes text.
C6_RejectedVariant ==
    [][/\ (Served /\ last'.auth
            /\ last'.op \in {"admin_variants", "admin_variant_edit"} /\ BadJson)
          => variants' = variants /\ last'.resp \in {"badjson", "missing"}
       /\ \A id \in DOMAIN variants \cap DOMAIN variants' :
            variants'[id] # variants[id]
            => /\ Served /\ last'.op = "admin_variant_edit" /\ last'.auth
               /\ last'.arg.variant_id = id /\ ~BadJson
      ]_vars

\* Uploads: files with the same and with different names, names that
\* secure_filename changes, a name with no allowed extension, an empty field.
Files ==
    {Png(T("a"), 1), Png(T("a"), 2), Png(<<".", ".", "/", "a">>, 3),
     Png(<<"a", " ", "b">>, 1), [filename |-> <<"a", ".", "P", "N", "G">>, data |-> 2],
     [filename |-> <<"a", ".", "t", "x", "t">>, data |-> 1],
     [filename |-> <<".", "g", "i", "f">>, data |-> 1], NoFile}

\* save_image called by one request after the other.
NextUpload ==
    \E u \in Uploaders :
        \/ \E fs \in Files : save_image(u, fs)
        \/ save_image_return(u)

SpecUpload == Init /\ [][NextUpload]_vars

\* C7: uploads handled one after another.  A call of save_image leaves every
\* file that was there in place with its content; a rejected file stores
\* nothing and returns None; an accepted file is stored, with its bytes,
\* under its sanitized name if no file has that name, otherwise under
\* base_i.ext for the smallest i >= 1 that no file has, and that name is
\* returned.
C7_NoOverwrite ==
    [][\A u \in Uploaders :
         (up[u].pc = "idle" /\ up'[u].pc = "done") =>
            LET fs   == up'[u].fs
                r    == up'[u].result
                name == secure_filename(fs.filename)
                base == SplitBase(name)
                ext  == SplitExt(name)
            IN  /\ \A n \in DOMAIN uploads :
                     n \in DOMAIN uploads' /\ uploads'[n] = uploads[n]
                /\ ~Accepted(fs) => r = None /\ uploads' = uploads
                /\ Accepted(fs) =>
                     /\ r \notin DOMAIN uploads
                     /\ uploads' = Put(uploads, r, fs.data)
                     /\ name \notin DOMAIN uploads => r = name
                     /\ name \in DOMAIN uploads =>
                          \E i \in 1..MaxFiles :
                             /\ r = Suffixed(base, i, ext)
                             /\ \A j \in 1..(i - 1) :
                                  Suffixed(base, j, ext) \in DOMAIN uploads
      ]_vars

\* The same original filename uploaded twice in sequence: two different
\* stored names, each file holding its own bytes.
C7_Witness ==
    /\ up["u1"].pc = "done" /\ up["u2"].pc = "done"
    /\ up["u1"].fs.filename = up["u2"].fs.filename
    /\ up["u1"].fs.data # up["u2"].fs.data
    /\ up["u1"].result # None /\ up["u2"].result # None
    /\ up["u1"].result # up["u2"].result
    /\ uploads[up["u1"].result] = up["u1"].fs.data
    /\ uploads[up["u2"].result] = up["u2"].fs.data

\* save_image called by two requests at once, statement by statement.
NextRace ==
    \E u \in Uploaders :
        \/ \E fs \in {Png(T("a"), 1), Png(T("a"), 2), Png(T("b"), 1)} :
              save_image_begin(u, fs)
        \/ save_image_exists(u)
        \/ save_image_save(u)
        \/ save_image_return(u)

SpecRace == Init /\ [][NextRace]_vars

\* C8: the write of save_image does not look at the directory again.  A call
\* that has passed its existence check always writes under the name it
\* checked and returns that name; if another upload has stored a file of that
\* name in between, the write replaces its content.
C8_CheckThenWrite ==
    [][\A u \in Uploaders :
         (up[u].pc = "save" /\ up'[u] # up[u]) =>
            /\ up'[u].pc = "done" /\ up'[u].result = up[u].filename
            /\ uploads' = Put(uploads, up[u].filename, up[u].fs.data)
      ]_vars

\* Two concurrent uploads of one original filename have both returned the
\* same stored name, and the file holds the bytes of only one of them.
C8_Witness ==
    /\ up["u1"].pc = "done" /\ up["u2"].pc = "done"
    /\ up["u1"].fs.filename = up["u2"].fs.filename
    /\ up["u1"].fs.data # up["u2"].fs.data
    /\ up["u1"].result = up["u2"].result /\ up["u1"].result # None
    /\ Cardinality(DOMAIN uploads) = 1

\* Fabrics and their reference images: create, add images, delete an image,
\* delete the fabric.
NextFabric ==
    \E w \in {"w1"}, cl \in {"b1"} :
        \/ admin_login(w, cl, POST, ADMIN_PASSWORD)
        \/ \E refs \in {<<>>, <<Png(T("r"), 1), Png(T("r"), 2)>>} :
              admin_fabric_new(w, cl, POST, T("F"), T("1"), <<>>, <<>>, NoFile, refs)
        \/ \E id \in Ids :
              admin_fabric_edit(w, cl, id, POST, T("F"), T("1"), <<>>, <<>>, NoFile,
                                <<Png(T("r"), 1)>>)
        \/ \E id \in Ids : admin_fabric_delete(w, cl, id)
        \/ \E id \in Ids, ref \in Ids, removed \in BOOLEAN :
              admin_fabric_ref_delete(w, cl, id, ref, removed)

SpecFabric == Init /\ [][NextFabric]_vars

\* C9: a served delete of an existing fabric removes the fabric, its
\* reference-image rows and the file of each of those rows from the upload
\* directory; a delete of a fabric id that does not exist changes nothing and
\* is answered normally.
C9_FabricDelete ==
    [][(Served /\ last'.op = "admin_fabric_delete" /\ last'.auth) =>
         LET id   == last'.arg.fabric_id
             refs == {x \in DOMAIN fabric_refs : fabric_refs[x].fabric_id = id}
         IN  IF id \in DOMAIN fabrics
             THEN /\ fabrics' = Drop(fabrics, {id})
                  /\ fabric_refs' = Drop(fabric_refs, refs)
                  /\ \A x \in refs : fabric_refs[x].filename \notin DOMAIN uploads'
             ELSE persisted' = persisted /\ last'.resp = "missing"
      ]_vars

\* Products: create, edit and delete served by one thread, with prices that
\* are and are not numbers and category references that are and are not
\* integers.
Prices == {T("5"), T("x"), <<"1", ".", "5", "x">>}

NextProduct ==
    \E w \in {"w1"}, cl \in {"b1"} :
        \/ admin_login(w, cl, POST, ADMIN_PASSWORD)
        \/ \E price \in Prices :
              admin_product_new(w, cl, POST, T("N"), price, T("d"), NoFile, <<>>, <<>>)
        \/ \E id \in Ids, price \in Prices, c \in {<<>>, T("x")} :
              admin_product_edit(w, cl, id, POST, T("Q"), price, T("d"), NoFile, c, <<>>)
        \/ \E id \in Ids : admin_product_delete(w, cl, id)
        \/ ThreadEnd(w)

SpecProduct == InitDemo /\ [][NextProduct]_vars

\* The price text of the request being served is not a number, and its
\* category and style references are well-formed.
BadPrice ==
    /\ Strip(last'.arg.price) # <<>> /\ ~FloatOk(Strip(last'.arg.price))
    /\ RefOk(last'.arg.category_id) /\ RefOk(last'.arg.style_id)

\* C10: a product create whose price text is not a number is accepted and
\* stores the new product with price 0; a product edit whose price text is
\* not a number is accepted, stores the submitted name and leaves the stored
\* price of the product as it was.
C10_BadPrice ==
    [][/\ (Posted("admin_product_new") /\ BadPrice) =>
            /\ last'.resp = "ok"
            /\ \E id \in DOMAIN products' \ DOMAIN products :
                 /\ products'[id].price_cents = 0
                 /\ products'[id].name = Strip(last'.arg.name)
       /\ (/\ Posted("admin_product_edit") /\ BadPrice
           /\ last'.arg.product_id \in DOMAIN products) =>
            LET id == last'.arg.product_id IN
                /\ last'.resp = "ok"
                /\ products'[id].name = Strip(last'.arg.name)
                /\ products'[id].price_cents = products[id].price_cents
      ]_vars

\* Malformed inputs: stock and reference texts that are not integers, ids of
\* rows that do not exist, a category name that is taken, a file whose
\* extension is not allowed.
Txt == [filename |-> <<"a", ".", "t", "x", "t">>, data |-> 1]

Stocks == {<<>>, T("1"), T("x")}

Refs == {<<>>, T("1"), T("x")}

NextFault ==
    \E w \in {"w1"}, cl \in {"b1"} :
        \/ admin_login(w, cl, POST, ADMIN_PASSWORD)
        \/ \E n \in {<<"fa", "shi">>, T("A")}, image \in {NoFile, Txt} :
              admin_category_new(w, cl, POST, n, <<>>, image)
        \/ \E id \in {1, 3} : admin_styles(w, cl, id, POST, T("S"), <<>>, Txt)
        \/ \E c \in Refs, s \in Refs :
              admin_product_new(w, cl, POST, T("N"), T("5"), T("d"), NoFile, c, s)
        \/ \E id \in Ids, c \in Refs :
              admin_product_edit(w, cl, id, POST, T("P"), <<>>, T("d"), Txt, c, <<>>)
        \/ \E id \in {1, 3}, n \in Stocks, a \in {<<>>, T("{")} :
              admin_variants(w, cl, id, POST, T("k"), n, a)
        \/ \E id \in Ids, n \in Stocks : admin_variant_edit(w, cl, id, T("k"), n, <<>>)
        \/ ThreadEnd(w)

SpecFault == InitDemo /\ [][NextFault]_vars

\* C11: no request ends in an unhandled fault: whatever the form carries, the
\* request just served was answered with a page or a redirect, never with an
\* exception that left the handler.
C11_NoFault == last.resp # "error"

\* The admin session: two browsers that log in with right and wrong
\* passwords, log out, and ask for admin and public pages in between.
NextSession ==
    \E w \in {"w1"}, cl \in Clients :
        \/ \E m \in Methods, pw \in Passwords : admin_login(w, cl, m, pw)
        \/ admin_logout(w, cl)
        \/ admin_dashboard(w, cl)
        \/ admin_settings(w, cl, POST, FlagKeys \ {"public_shopfront"})
        \/ admin_category_delete(w, cl, 1)
        \/ admin_products(w, cl)
        \/ index(w, cl)
        \/ fabrics_choose(w, cl)

SpecSession == InitDemo /\ [][NextSession]_vars

\* C12: the admin session is a two-state machine.  A browser's session
\* becomes authenticated only in the step that serves its own POST to
\* /admin/login with the configured password; such a POST leaves it
\* authenticated and a login request with another password or by GET leaves
\* it as it was; /admin/logout leaves it unauthenticated; no request changes
\* the session of another browser and no other request changes any session.
C12_SessionMachine ==
    [][/\ \A cl \in Clients :
            /\ (~is_admin[cl] /\ is_admin'[cl]) =>
                  /\ Served /\ last'.op = "admin_login" /\ last'.cl = cl
                  /\ last'.arg.method = "POST"
                  /\ last'.arg.password = ADMIN_PASSWORD
            /\ (is_admin[cl] /\ ~is_admin'[cl]) =>
                  Served /\ last'.op = "admin_logout" /\ last'.cl = cl
       /\ (Served /\ last'.op = "admin_login") =>
            is_admin'[last'.cl] =
               (is_admin[last'.cl] \/ (/\ last'.arg.method = "POST"
                                       /\ last'.arg.password = ADMIN_PASSWORD))
       /\ (Served /\ last'.op = "admin_logout") => ~is_admin'[last'.cl]
      ]_vars

\* While one browser is logged in, the other posted a wrong password and is
\* still not logged in.
C12_Witness ==
    /\ last.op = "admin_login" /\ last.cl = "b2" /\ last.resp = "badpw"
    /\ ~is_admin["b2"] /\ is_admin["b1"]
    /\ site_settings["public_shopfront"] = "0"

\* Deleting a product: products with variants, variant edits (some rejected)
\* and product deletes served by one thread.
NextProductDelete ==
    \E w \in {"w1"}, cl \in {"b1"} :
        \/ admin_login(w, cl, POST, ADMIN_PASSWORD)
        \/ admin_product_new(w, cl, POST, T("N"), T("5"), T("d"), NoFile, <<>>, <<>>)
        \/ \E id \in Ids : admin_variants(w, cl, id, POST, T("k"), T("1"), <<>>)
        \/ \E id \in Ids, k \in {T("k"), T("m")}, a \in {<<>>, T("{")} :
              admin_variant_edit(w, cl, id, k, T("1"), a)
        \/ \E id \in Ids : admin_product_delete(w, cl, id)
        \/ ThreadEnd(w)

SpecProductDelete == InitDemo /\ [][NextProductDelete]_vars

\* C13: a served delete of an existing product removes exactly that product
\* and the variants of that product and changes no other product, no other
\* variant, no category and no style; a delete of a product id that does not
\* exist changes nothing.
C13_ProductDelete ==
    [][(Served /\ last'.op = "admin_product_delete" /\ last'.auth) =>
         LET id   == last'.arg.product_id
             gone == {x \in DOMAIN variants : variants[x].product_id = id}
         IN  IF id \in DOMAIN products
             THEN /\ products' = Drop(products, {id})
                  /\ variants' = Drop(variants, gone)
                  /\ categories' = categories /\ styles' = styles
             ELSE persisted' = persisted
      ]_vars

\* Reference images: fabrics created with and without one, images added by
\* an edit, and the delete of an image for every pair of fabric id and ref id.
NextRefImage ==
    \E w \in {"w1"}, cl \in {"b1"} :
        \/ admin_login(w, cl, POST, ADMIN_PASSWORD)
        \/ \E refs \in {<<>>, <<Png(T("r"), 1)>>} :
              admin_fabric_new(w, cl, POST, T("F"), T("1"), <<>>, <<>>, NoFile, refs)
        \/ admin_fabric_edit(w, cl, 1, POST, T("F"), T("1"), <<>>, <<>>, NoFile,
                             <<Png(T("r"), 1)>>)
        \/ \E id \in Ids, ref \in Ids, removed \in BOOLEAN :
              admin_fabric_ref_delete(w, cl, id, ref, removed)

SpecRefImage == Init /\ [][NextRefImage]_vars

\* C14: a served delete of a reference image whose row exists and belongs to
\* the fabric of the path removes exactly that row, whether or not the
\* operating system removed the file, and removes from the upload directory
\* at most the file of that row (that file, when the removal succeeded); a
\* delete whose ref_id has no row, or a row of another fabric, removes no row
\* and no file.  No fabric changes either way.
C14_RefDelete ==
    [][(Served /\ last'.op = "admin_fabric_ref_delete" /\ last'.auth) =>
         LET fid == last'.arg.fabric_id
             rid == last'.arg.ref_id
         IN  /\ fabrics' = fabrics
             /\ IF rid \in DOMAIN fabric_refs /\ fabric_refs[rid].fabric_id = fid
                THEN /\ fabric_refs' = Drop(fabric_refs, {rid})
                     /\ uploads' = IF last'.arg.removed
                                   THEN Drop(uploads, {fabric_refs[rid].filename})
                                   ELSE uploads
                ELSE fabric_refs' = fabric_refs /\ uploads' = uploads
      ]_vars

\* The file of a reference image could not be removed: its row is gone, the
\* file and the row of the fabric's other reference image are still there.
C14_Witness ==
    /\ last.op = "admin_fabric_ref_delete" /\ last.resp = "ok" /\ ~last.arg.removed
    /\ last.arg.ref_id \notin DOMAIN fabric_refs
    /\ \E x \in DOMAIN fabric_refs : fabric_refs[x].fabric_id = last.arg.fabric_id
    /\ Cardinality(DOMAIN uploads) = 2

\* Renaming a category: renames to a free and to a taken name, with and
\* without a new description and image, and the settings form in between,
\* served by one thread.
NextRename ==
    \E w \in {"w1"}, cl \in {"b1"} :
        \/ admin_login(w, cl, POST, ADMIN_PASSWORD)
        \/ \E id \in Ids, n \in {<<"fa", "shi">>, <<>>}, d \in {T("d"), T("x")},
              image \in {NoFile, Png(T("a"), 1)} :
              admin_category_edit(w, cl, id, POST, n, d, image)
        \/ admin_settings(w, cl, POST, FlagKeys)
        \/ ThreadEnd(w)

SpecRename == InitDemo /\ [][NextRename]_vars

\* C15: a rename rejected because the name is taken stores nothing of the
\* request, then or later: the step that serves it changes no category, and
\* a stored category changes only in the step that serves an accepted edit
\* of that category, which keeps the stored image when it uploads none.
C15_RejectedRename ==
    [][/\ (Served /\ last'.op = "admin_category_edit" /\ last'.auth
            /\ last'.resp = "dup") => categories' = categories
       /\ \A id \in DOMAIN categories \cap DOMAIN categories' :
            categories'[id] # categories[id] =>
               /\ Served /\ last'.op = "admin_category_edit" /\ last'.auth
               /\ last'.arg.category_id = id /\ last'.resp = "ok"
               /\ last'.arg.image = NoFile =>
                     categories'[id].image_filename = categories[id].image_filename
      ]_vars

\* References between the tables: categories and styles are deleted while
\* products that name them, by the ids the form carries, are created and
\* edited; variants are created for products that are then deleted.
NextRefs ==
    \E w \in {"w1"}, cl \in {"b1"} :
        \/ admin_login(w, cl, POST, ADMIN_PASSWORD)
        \/ admin_category_delete(w, cl, 1)
        \/ \E id \in {1, 2} : admin_style_delete(w, cl, id)
        \/ \E c \in {<<>>, T("1")}, s \in {<<>>, T("2")} :
              admin_product_new(w, cl, POST, T("N"), T("5"), T("d"), NoFile, c, s)
        \/ \E id \in Ids, c \in {<<>>, T("1")}, s \in {<<>>, T("2")} :
              admin_product_edit(w, cl, id, POST, T("P"), <<>>, T("d"), NoFile, c, s)
        \/ \E id \in Ids : admin_product_delete(w, cl, id)
        \/ \E id \in Ids : admin_variants(w, cl, id, POST, T("k"), T("1"), <<>>)

SpecRefs == InitDemo /\ [][NextRefs]_vars

\* C16: referential integrity.  In every reachable state every style's
\* category, every variant's product and every reference image's fabric
\* exists, and every product's category reference and style reference is
\* null or names an existing category and an existing style.
C16_RefIntegrity ==
    /\ \A x \in DOMAIN styles : styles[x].category_id \in DOMAIN categories
    /\ \A x \in DOMAIN variants : variants[x].product_id \in DOMAIN products
    /\ \A x \in DOMAIN fabric_refs : fabric_refs[x].fabric_id \in DOMAIN fabrics
    /\ \A x \in DOMAIN products :
         /\ products[x].category_id \subseteq DOMAIN categories
         /\ products[x].style_id \subseteq DOMAIN styles

\* Prices: products and fabrics created and edited with price texts that are
\* decimal numbers with at most two fractional digits.
Decimals ==
    {T("0"), <<"0", ".", "5">>, <<"3", "9", "0", ".", "0", "0">>}

NextPrice ==
    \E w \in {"w1"}, cl \in {"b1"} :
        \/ admin_login(w, cl, POST, ADMIN_PASSWORD)
        \/ \E price \in Decimals :
              admin_product_new(w, cl, POST, T("N"), price, T("d"), NoFile, <<>>, <<>>)
        \/ \E id \in Ids, price \in Decimals :
              admin_product_edit(w, cl, id, POST, T("P"), price, T("d"), NoFile,
                                 <<>>, <<>>)
        \/ \E price \in Decimals :
              admin_fabric_new(w, cl, POST, T("F"), price, <<>>, <<>>, NoFile, <<>>)
        \/ \E id \in Ids, price \in Decimals :
              admin_fabric_edit(w, cl, id, POST, T("F"), price, <<>>, <<>>, NoFile, <<>>)
        \/ admin_fabric_delete(w, cl, 2)

SpecPrice == InitDemo /\ [][NextPrice]_vars

\* A text that is a non-negative decimal number with at most two fractional
\* digits, and a hundred times the number it denotes.
Decimal2(text) ==
    /\ text # <<>> /\ Cardinality(Dots(text)) <= 1
    /\ IntPart(text) # <<>> /\ AllDigits(IntPart(text))
    /\ AllDigits(FracPart(text)) /\ Len(FracPart(text)) <= 2

TimesHundred(text) ==
    Num(IntPart(text)) * 100 + Digit(FracPart(text), 1) * 10 + Digit(FracPart(text), 2)

\* C17: an accepted create or edit of a product or a fabric whose price text
\* is a non-negative decimal with at most two fractional digits, "0"
\* included, stores a hundred times that number as the price of the row.
C17_PriceStored ==
    [][(/\ Served /\ last'.auth /\ last'.resp = "ok"
        /\ last'.op \in {"admin_product_new", "admin_product_edit",
                         "admin_fabric_new", "admin_fabric_edit"}
        /\ Decimal2(Strip(last'.arg.price)))
       => LET cents == TimesHundred(Strip(last'.arg.price)) IN
          /\ last'.op = "admin_product_new" =>
                \E id \in DOMAIN products' \ DOMAIN products :
                    products'[id].price_cents = cents
          /\ last'.op = "admin_product_edit" =>
                products'[last'.arg.product_id].price_cents = cents
          /\ last'.op = "admin_fabric_new" =>
                \E id \in DOMAIN fabrics' \ DOMAIN fabrics :
                    fabrics'[id].price_cents = cents
          /\ last'.op = "admin_fabric_edit" =>
                fabrics'[last'.arg.fabric_id].price_cents = cents
      ]_vars

====
